---- MODULE Spec2Model ----
(***************************************************************************)
(* Model of bot.py: the clan monitor (fetch -> diff -> notify -> update   *)
(* -> sleep), the startup seeding in main.on_startup and the command      *)
(* handlers, all running on one asyncio event loop.  One action is one    *)
(* block of code between two await points.                                *)
(*                                                                         *)
(* A Python dict is a sequence of <<key, value>> pairs with distinct keys, *)
(* in insertion order.                                                     *)
(***************************************************************************)
EXTENDS Integers, Sequences, FiniteSets, TLC

\* ------------------------------------------------------------------ bounds
\* longest "items" list of an API response
MaxItems == 2

\* ------------------------------------------------------------- input values
\* the value item.get("tag") gives for an item without a tag
None == "None"
Tags == {"#A", "#B"}
\* display names, listed in the order Python's str comparison gives them
NameOrder == <<"Ann", "Bob">>
Names == {NameOrder[i] : i \in DOMAIN NameOrder}
\* status codes requests.get can answer with
HttpStatuses == {200, 503}
\* members_command shows lines[:200]
ListLimit == 200

ItemSet == [tag : Tags \cup {None}, name : Names]
ItemSeqs == UNION {[1..n -> ItemSet] : n \in 0..MaxItems}

\* What requests.get / resp.json() can produce.  exc: the call raised.
\* json: "bad" (resp.json() or the parse of the body raises), "noitems" (a
\* JSON object without an "items" key), "items" (an object with the list).
NoResp == [exc |-> FALSE, status_code |-> 0, json |-> "none", items |-> <<>>]
Responses ==
    {[exc |-> TRUE, status_code |-> 0, json |-> "none", items |-> <<>>]}
    \cup {[exc |-> FALSE, status_code |-> s, json |-> "none", items |-> <<>>] :
            s \in HttpStatuses \ {200}}
    \cup {[exc |-> FALSE, status_code |-> 200, json |-> j, items |-> <<>>] :
            j \in {"bad", "noitems"}}
    \cup {[exc |-> FALSE, status_code |-> 200, json |-> "items", items |-> s] :
            s \in ItemSeqs}

\* the responses whose items all carry the first name: the inputs of the
\* specification that records the per-tag history
TrackedResponses ==
    {r \in Responses : \A i \in DOMAIN r.items : r.items[i].name = NameOrder[1]}

\* ------------------------------------------------------------ dict helpers
Keys(d) == {d[i][1] : i \in DOMAIN d}
HasKey(d, k) == \E i \in DOMAIN d : d[i][1] = k
Lookup(d, k) == d[CHOOSE i \in DOMAIN d : d[i][1] = k][2]
\* d[k] = v: an existing key keeps its position, a new key goes last
DictPut(d, k, v) ==
    IF HasKey(d, k)
    THEN [i \in DOMAIN d |-> IF d[i][1] = k THEN <<k, v>> ELSE d[i]]
    ELSE Append(d, <<k, v>>)

\* {item.get("tag"): item.get("name") for item in items}
RECURSIVE DictFromItems(_)
DictFromItems(items) ==
    IF items = <<>> THEN <<>>
    ELSE LET n == Len(items)
         IN DictPut(DictFromItems(SubSeq(items, 1, n - 1)),
                    items[n].tag, items[n].name)

\* ------------------------------------------------------------------ fetcher
\* The pair (members, status); none says that members is None, status 0
\* stands for the status None.
NoneMembers == [none |-> TRUE, dict |-> <<>>]

fetch_clan_members_sync(r) ==
    IF r.exc
    THEN [none |-> TRUE, dict |-> <<>>, status |-> 0]
    ELSE IF r.status_code # 200
    THEN [none |-> TRUE, dict |-> <<>>, status |-> r.status_code]
    ELSE IF r.json = "bad"
    THEN [none |-> TRUE, dict |-> <<>>, status |-> 0]
    ELSE LET items == IF r.json = "items" THEN r.items ELSE <<>>
         IN [none |-> FALSE, dict |-> DictFromItems(items), status |-> 200]

\* ------------------------------------------------------------------- differ
SelectPairs(d, other, keep) ==
    LET Test(p) == HasKey(other, p[1]) = keep IN SelectSeq(d, Test)

JoinedUnfiltered(members, known) == members
JoinedInverted(members, known) == SelectPairs(members, known, TRUE)
\* joined = {t: n for t, n in members.items() if t not in known_members}
Joined(members, known) == SelectPairs(members, known, FALSE)

\* left = {t: n for t, n in known_members.items() if t not in members}
Left(members, known) == SelectPairs(known, members, FALSE)

\* the send_message calls of the two for loops, in the order they are made
Events(kind, d) == [i \in DOMAIN d |-> [kind |-> kind, tag |-> d[i][1], name |-> d[i][2]]]
Dispatches(members, known) ==
    Events("join", Joined(members, known)) \o Events("leave", Left(members, known))

\* "if members is None" of the monitor loop
IsNoneAsEmpty(res) == FALSE
IsNone(res) == res.none

\* "if members:" of on_startup
TruthyNever(res) == FALSE
Truthy(res) == ~res.none /\ res.dict # <<>>

\* the except clause inside each for loop: a failed send leaves the rest of
\* the dispatches to be made
RestAbortOnFailure(q, ok) == IF ok THEN Tail(q) ELSE <<>>
Rest(q, ok) == Tail(q)

\* known_members once the block ends with rest still to be dispatched:
\* "known_members = members" comes after both for loops
PendingTags(rest, kind) == {rest[i].tag : i \in {j \in DOMAIN rest : rest[j].kind = kind}}
KnownNextIncremental(known, members, rest) ==
    LET KeepNew(p) == p[1] \notin PendingTags(rest, "join")
        KeepOld(p) == p[1] \in PendingTags(rest, "leave")
    IN SelectSeq(members, KeepNew) \o SelectSeq(known, KeepOld)
KnownNextEarly(known, members, rest) == members
KnownNextKeepNames(known, members, rest) ==
    IF rest = <<>>
    THEN [i \in DOMAIN members |->
            IF HasKey(known, members[i][1])
            THEN <<members[i][1], Lookup(known, members[i][1])>>
            ELSE members[i]]
    ELSE known
KnownNext(known, members, rest) == IF rest = <<>> THEN members ELSE known

\* app.create_task(monitor_clan(app)) is the last statement of on_startup
TaskCreatedEarly(spc) == spc \in {"fetching", "done"}
TaskCreated(spc) == spc = "done"

\* ----------------------------------------------------------------- commands
NameRank(n) == CHOOSE i \in DOMAIN NameOrder : NameOrder[i] = n
SortedByNameUnsorted(d) == d
\* sorted(known_members.items(), key=lambda x: x[1]): stable insertion
RECURSIVE SortedByName(_)
SortedByName(d) ==
    IF d = <<>> THEN <<>>
    ELSE LET n == Len(d)
             s == SortedByName(SubSeq(d, 1, n - 1))
             k == Cardinality({i \in DOMAIN s : NameRank(s[i][2]) <= NameRank(d[n][2])})
         IN SubSeq(s, 1, k) \o <<d[n]>> \o SubSeq(s, k + 1, Len(s))

Min(a, b) == IF a < b THEN a ELSE b
\* lines[:n]
Truncate(lines, n) == SubSeq(lines, 1, Min(n, Len(lines)))
\* the lines of the members reply: name, tag
SortedLines(d) ==
    LET s == SortedByName(d) IN [i \in DOMAIN s |-> <<s[i][2], s[i][1]>>]
MembersLines(d) == Truncate(SortedLines(d), ListLimit)

NoReply == [cmd |-> "none", count |-> 0, nodata |-> FALSE, lines |-> <<>>]

\* -------------------------------------------------------------------- state
VARIABLES
    known_members,  \* the global dict tag -> name
    startup_pc,     \* on_startup: "init", "fetching", "done"
    monitor_pc,     \* monitor_clan: "idle", "fetching", "sending", "sleep"
    inflight,       \* number of fetch_clan_members_sync calls running in threads
    resp,           \* the response the current cycle's fetch got
    members,        \* the local "members" of monitor_clan
    queue,          \* dispatches of this cycle still to be made; the head is awaited
    sent,           \* history: dispatch attempts of this cycle, with their outcome
    prev,           \* history: known_members when this cycle began
    lastGood,       \* history: roster of the most recent fetch that returned one
    seed,           \* history: outcome of the startup fetch
    firstCycle,     \* history: the first cycle with a roster is "pending", "current", "over"
    reply,          \* the reply of the command handled last, until the loop moves on
    lastAttempt,    \* history (TrackedSpec): per tag, the latest dispatch attempt
    outage,         \* history (TrackedSpec): the previous cycle's fetch failed
    baseGood        \* history (TrackedSpec): lastGood when this cycle began

vars == <<known_members, startup_pc, monitor_pc, inflight, resp, members, queue,
          sent, prev, lastGood, seed, firstCycle, reply, lastAttempt, outage, baseGood>>

\* the history that only TrackedSpec records
Unrecorded == UNCHANGED <<lastAttempt, outage, baseGood>>
\* kind: "none", "seeded", "join", "leave"; before: the kind it replaced
NoAttempt == [kind |-> "none", ok |-> TRUE, before |-> "none"]

Init ==
    /\ known_members = <<>>
    /\ startup_pc = "init"
    /\ monitor_pc = "idle"
    /\ inflight = 0
    /\ resp = NoResp
    /\ members = NoneMembers
    /\ queue = <<>>
    /\ sent = <<>>
    /\ prev = <<>>
    /\ lastGood = <<>>
    /\ seed = [ok |-> FALSE, roster |-> <<>>]
    /\ firstCycle = "pending"
    /\ reply = NoReply
    /\ lastAttempt = [t \in Tags \cup {None} |-> NoAttempt]
    /\ outage = FALSE
    /\ baseGood = <<>>

\* ------------------------------------------------------------------ startup
\* post_init: on_startup runs up to "await asyncio.to_thread(...)"
OnStartupBegin ==
    /\ startup_pc = "init"
    /\ startup_pc' = "fetching"
    /\ inflight' = inflight + 1
    /\ UNCHANGED <<known_members, monitor_pc, resp, members, queue, sent, prev,
                   lastGood, seed, firstCycle, reply>>
    /\ Unrecorded

\* the startup fetch returns: seed known_members, create the monitor task
StartupFetchReturns(r) ==
      LET res == fetch_clan_members_sync(r) IN
        /\ startup_pc = "fetching"
        /\ startup_pc' = "done"
        /\ inflight' = inflight - 1
        /\ known_members' = IF Truthy(res) THEN res.dict ELSE known_members
        /\ seed' = [ok |-> ~res.none, roster |-> res.dict]
        /\ lastGood' = IF res.none THEN lastGood ELSE res.dict
        /\ UNCHANGED <<monitor_pc, resp, members, queue, sent, prev, firstCycle, reply>>

OnStartupFetchReturn ==
    \E r \in Responses : StartupFetchReturns(r) /\ Unrecorded

\* the same step on TrackedResponses
OnStartupFetchReturnPlain ==
    \E r \in TrackedResponses : StartupFetchReturns(r) /\ Unrecorded

\* the same step, recording which tags the startup roster seeded
OnStartupFetchReturnTracked ==
    \E r \in TrackedResponses :
        /\ StartupFetchReturns(r)
        /\ lastAttempt' = [t \in DOMAIN lastAttempt |->
                              IF HasKey(known_members', t)
                              THEN [kind |-> "seeded", ok |-> TRUE, before |-> "none"]
                              ELSE lastAttempt[t]]
        /\ UNCHANGED <<outage, baseGood>>

\* ------------------------------------------------------------- monitor loop
\* top of "while True": the fetch is handed to a thread and awaited
BeginCycle ==
    /\ monitor_pc' = "fetching"
    /\ inflight' = inflight + 1
    /\ resp' = NoResp
    /\ members' = NoneMembers
    /\ queue' = <<>>
    /\ sent' = <<>>
    /\ prev' = known_members
    /\ firstCycle' = IF firstCycle = "current" THEN "over" ELSE firstCycle
    /\ seed' = IF firstCycle = "pending" THEN seed ELSE [ok |-> seed.ok, roster |-> <<>>]
    /\ reply' = NoReply
    /\ UNCHANGED <<known_members, startup_pc, lastGood>>

\* the task created by on_startup runs for the first time
MonitorStart ==
    /\ monitor_pc = "idle"
    /\ TaskCreated(startup_pc)
    /\ BeginCycle
    /\ Unrecorded

\* history of a cycle's beginning
RecordCycle ==
    /\ outage' = (monitor_pc = "sleep" /\ members.none)
    /\ baseGood' = lastGood
    /\ UNCHANGED lastAttempt

MonitorStartTracked ==
    /\ monitor_pc = "idle"
    /\ TaskCreated(startup_pc)
    /\ BeginCycle
    /\ RecordCycle

\* asyncio.sleep(POLL_INTERVAL) is over, "continue" or the end of the body
SleepWakeOnlyAfterRoster ==
    /\ monitor_pc = "sleep"
    /\ ~members.none
    /\ BeginCycle
    /\ Unrecorded
SleepWake ==
    /\ monitor_pc = "sleep"
    /\ BeginCycle
    /\ Unrecorded

SleepWakeTracked ==
    /\ monitor_pc = "sleep"
    /\ BeginCycle
    /\ RecordCycle

\* the fetch returns: failure check, diff, and the first send_message call
FetchReturns(r) ==
      LET res == fetch_clan_members_sync(r)
          q == Dispatches(res.dict, known_members)
      IN
        /\ monitor_pc = "fetching"
        /\ inflight' = inflight - 1
        /\ resp' = r
        /\ members' = [none |-> res.none, dict |-> res.dict]
        /\ reply' = NoReply
        /\ lastGood' = IF res.none THEN lastGood ELSE res.dict
        /\ firstCycle' = IF ~res.none /\ firstCycle = "pending" THEN "current"
                         ELSE firstCycle
        /\ IF IsNone(res)
           THEN /\ monitor_pc' = "sleep"
                /\ UNCHANGED <<known_members, queue>>
           ELSE /\ queue' = q
                /\ known_members' = KnownNext(known_members, res.dict, q)
                /\ monitor_pc' = IF q = <<>> THEN "sleep" ELSE "sending"
        /\ UNCHANGED <<startup_pc, sent, prev, seed>>

MonitorFetchReturn ==
    \E r \in Responses : FetchReturns(r) /\ Unrecorded

MonitorFetchReturnTracked ==
    \E r \in TrackedResponses : FetchReturns(r) /\ Unrecorded

\* the awaited send_message returns or raises; then the next one is called,
\* or known_members is assigned and the sleep begins
SendReturnsSkipFailed(ok) ==
      LET rest == Rest(queue, ok)
          all == Append(sent, [ev |-> Head(queue), ok |-> ok])
          failed == {all[i].ev.tag :
                       i \in {j \in DOMAIN all : ~all[j].ok /\ all[j].ev.kind = "join"}}
          Delivered(p) == p[1] \notin failed
      IN
        /\ monitor_pc = "sending"
        /\ sent' = all
        /\ queue' = rest
        /\ known_members' = IF rest = <<>> THEN SelectSeq(members.dict, Delivered)
                            ELSE known_members
        /\ monitor_pc' = IF rest = <<>> THEN "sleep" ELSE "sending"
        /\ reply' = NoReply
        /\ UNCHANGED <<startup_pc, inflight, resp, members, prev, lastGood, seed, firstCycle>>
SendReturns(ok) ==
      LET rest == Rest(queue, ok) IN
        /\ monitor_pc = "sending"
        /\ sent' = Append(sent, [ev |-> Head(queue), ok |-> ok])
        /\ queue' = rest
        /\ known_members' = KnownNext(known_members, members.dict, rest)
        /\ monitor_pc' = IF rest = <<>> THEN "sleep" ELSE "sending"
        /\ reply' = NoReply
        /\ UNCHANGED <<startup_pc, inflight, resp, members, prev, lastGood, seed, firstCycle>>

SendReturn ==
    \E ok \in BOOLEAN : SendReturns(ok) /\ Unrecorded

\* the same step, recording the attempt under its tag
SendReturnTracked ==
    \E ok \in BOOLEAN :
        /\ SendReturns(ok)
        /\ lastAttempt' = [lastAttempt EXCEPT
                              ![Head(queue).tag] =
                                  [kind |-> Head(queue).kind, ok |-> ok,
                                   before |-> lastAttempt[Head(queue).tag].kind]]
        /\ UNCHANGED <<outage, baseGood>>

\* ----------------------------------------------------------------- commands
\* run_polling starts taking updates once post_init has returned
Polling == startup_pc = "done"

StartCommand ==
    /\ Polling
    /\ reply' = [cmd |-> "start", count |-> 0, nodata |-> FALSE, lines |-> <<>>]
    /\ UNCHANGED <<known_members, startup_pc, monitor_pc, inflight, resp, members,
                   queue, sent, prev, lastGood, seed, firstCycle>>
    /\ Unrecorded

StatusCommandCountsFetched ==
    /\ Polling
    /\ reply' = [cmd |-> "status",
                 count |-> IF monitor_pc = "sending" THEN Len(members.dict)
                           ELSE Len(known_members),
                 nodata |-> FALSE, lines |-> <<>>]
    /\ UNCHANGED <<known_members, startup_pc, monitor_pc, inflight, resp, members,
                   queue, sent, prev, lastGood, seed, firstCycle>>
    /\ Unrecorded
StatusCommand ==
    /\ Polling
    /\ reply' = [cmd |-> "status", count |-> Len(known_members), nodata |-> FALSE,
                 lines |-> <<>>]
    /\ UNCHANGED <<known_members, startup_pc, monitor_pc, inflight, resp, members,
                   queue, sent, prev, lastGood, seed, firstCycle>>
    /\ Unrecorded

MembersCommandSortsInPlace ==
    /\ Polling
    /\ reply' = [cmd |-> "members", count |-> 0, nodata |-> (known_members = <<>>),
                 lines |-> MembersLines(known_members)]
    /\ known_members' = SortedByName(known_members)
    /\ UNCHANGED <<startup_pc, monitor_pc, inflight, resp, members,
                   queue, sent, prev, lastGood, seed, firstCycle>>
    /\ Unrecorded
MembersCommand ==
    /\ Polling
    /\ reply' = [cmd |-> "members", count |-> 0, nodata |-> (known_members = <<>>),
                 lines |-> MembersLines(known_members)]
    /\ UNCHANGED <<known_members, startup_pc, monitor_pc, inflight, resp, members,
                   queue, sent, prev, lastGood, seed, firstCycle>>
    /\ Unrecorded

Next ==
    \/ OnStartupBegin
    \/ OnStartupFetchReturn
    \/ MonitorStart
    \/ SleepWake
    \/ MonitorFetchReturn
    \/ SendReturn
    \/ StartCommand
    \/ StatusCommand
    \/ MembersCommand

Spec == Init /\ [][Next]_vars

\* The same program on TrackedResponses, with the history recorded.
TrackedNext ==
    \/ OnStartupBegin
    \/ OnStartupFetchReturnTracked
    \/ MonitorStartTracked
    \/ SleepWakeTracked
    \/ MonitorFetchReturnTracked
    \/ SendReturnTracked
    \/ StartCommand
    \/ StatusCommand
    \/ MembersCommand

TrackedSpec == Init /\ [][TrackedNext]_vars

\* The same program on TrackedResponses without the recorded history, for
\* the progress of the loop.
LiveNext ==
    \/ OnStartupBegin
    \/ OnStartupFetchReturnPlain
    \/ MonitorStart
    \/ SleepWake
    \/ MonitorFetchReturnTracked
    \/ SendReturn
    \/ StartCommand
    \/ StatusCommand
    \/ MembersCommand

\* to_thread's fetch ends (requests timeout=15), send_message and
\* asyncio.sleep end, and the event loop runs every task that is ready
LiveSpec ==
    /\ Init /\ [][LiveNext]_vars
    /\ WF_vars(OnStartupBegin)
    /\ WF_vars(OnStartupFetchReturnPlain)
    /\ WF_vars(MonitorStart)
    /\ WF_vars(SleepWake)
    /\ WF_vars(MonitorFetchReturnTracked)
    /\ WF_vars(SendReturn)

TypeOK ==
    /\ startup_pc \in {"init", "fetching", "done"}
    /\ monitor_pc \in {"idle", "fetching", "sending", "sleep"}
    /\ inflight \in 0..2
    /\ Cardinality(Keys(known_members)) = Len(known_members)
    /\ firstCycle \in {"pending", "current", "over"}

\* ------------------------------------------------------------ claim helpers
\* the fetch of the cycle has returned
Fetched == monitor_pc # "fetching" /\ resp # NoResp
\* the cycle's fetch got a roster and the cycle has reached its sleep
CycleDone == monitor_pc = "sleep" /\ Fetched /\ ~members.none
SentEvents == [i \in DOMAIN sent |-> sent[i].ev]
Range(f) == {f[i] : i \in DOMAIN f}
KindsSent == {sent[i].ev.kind : i \in DOMAIN sent}

\* C1: in a cycle whose fetch fails (a non-200 status, or an exception in the
\* request or in the parse), nothing is dispatched and known_members after
\* the cycle is what it was before the cycle.
FailedResp(r) == r.exc \/ r.status_code # 200 \/ r.json = "bad"
C1_FailedFetchSkipsCycle ==
    (Fetched /\ FailedResp(resp)) =>
        /\ monitor_pc = "sleep"
        /\ sent = <<>>
        /\ queue = <<>>
        /\ known_members = prev
C1_Witness ==
    /\ monitor_pc = "sleep"
    /\ resp.status_code = 503
    /\ Len(known_members) = 2

\* C2: when no cycle is in flight (sleeping, or startup finished and the
\* first cycle not begun), known_members is the roster of the most recent
\* fetch that returned one, and is empty when there was none.
C2_StateIsLastGoodRoster ==
    (startup_pc = "done" /\ monitor_pc \in {"idle", "sleep"}) =>
        known_members = lastGood
C2_Witness ==
    /\ monitor_pc = "sleep"
    /\ firstCycle = "over"
    /\ FailedResp(resp)
    /\ known_members # <<>>
    /\ seed.ok

\* C3: a 200 response with a malformed payload (no items list, or a body that
\* does not parse) is handled as a fetch error: nothing dispatched,
\* known_members unchanged.
C3_MalformedIsFetchError ==
    (Fetched /\ resp.status_code = 200 /\ resp.json \in {"bad", "noitems"}) =>
        /\ monitor_pc = "sleep"
        /\ sent = <<>>
        /\ queue = <<>>
        /\ known_members = prev

\* C4: a startup fetch that returns roster S sets known_members to S with no
\* dispatch, and the first cycle that fetches a roster R dispatches joins
\* only for tags of R not in S and leaves only for tags of S not in R.
C4_SeededFirstCycle ==
    /\ (startup_pc = "done" /\ monitor_pc = "idle" /\ seed.ok) =>
           (known_members = seed.roster /\ sent = <<>> /\ queue = <<>>)
    /\ (seed.ok /\ firstCycle = "current") =>
           \A e \in Range(SentEvents) \cup Range(queue) :
              /\ e.kind = "join" =>
                    e.tag \in Keys(members.dict) \ Keys(seed.roster)
              /\ e.kind = "leave" =>
                    e.tag \in Keys(seed.roster) \ Keys(members.dict)
C4_Witness ==
    /\ seed.ok
    /\ firstCycle = "current"
    /\ monitor_pc = "sleep"
    /\ KindsSent = {"join", "leave"}
    /\ Keys(seed.roster) \cap Keys(members.dict) # {}

\* C5: in a cycle whose fetch returns a roster, every entry of Joined and of
\* Left gets a dispatch attempt whatever the other attempts' outcomes, and
\* known_members is the fetched roster at the end of the cycle.
C5_FailuresIsolated ==
    CycleDone =>
        /\ \A e \in Range(Dispatches(members.dict, prev)) : e \in Range(SentEvents)
        /\ known_members = members.dict
C5_Witness ==
    /\ CycleDone
    /\ Len(sent) >= 2
    /\ ~sent[1].ok
    /\ \E i \in DOMAIN sent : sent[i].ok

\* C6: in a cycle that fetches roster C while known_members is P, the
\* dispatch attempts are exactly one join (t, C[t]) for each tag of C not in
\* P and one leave (t, P[t]) for each tag of P not in C.
C6_Expected(C, P) ==
    {[kind |-> "join", tag |-> t, name |-> Lookup(C, t)] : t \in Keys(C) \ Keys(P)}
    \cup {[kind |-> "leave", tag |-> t, name |-> Lookup(P, t)] : t \in Keys(P) \ Keys(C)}
C6_ExactDispatches ==
    CycleDone =>
        /\ Range(SentEvents) = C6_Expected(members.dict, prev)
        /\ Len(sent) = Cardinality(C6_Expected(members.dict, prev))
C6_Witness ==
    /\ CycleDone
    /\ KindsSent = {"join", "leave"}
    /\ \E t \in Keys(prev) \cap Keys(members.dict) :
          Lookup(prev, t) # Lookup(members.dict, t)

\* C7: known_members is assigned only once every dispatch of the cycle has
\* been attempted, no dispatch is attempted after the assignment, and each
\* cycle's diff is taken against the roster the previous cycle stored.
C7_UpdateAfterDispatches ==
    [][ /\ (startup_pc = "done" /\ known_members' # known_members) =>
              (queue' = <<>> /\ monitor_pc' = "sleep"
               /\ SentEvents' = Dispatches(members'.dict, prev))
        /\ (Len(sent') > Len(sent)) => known_members = prev
        /\ (monitor_pc = "fetching" /\ monitor_pc' # "fetching") =>
              known_members = lastGood
      ]_vars
C7_Witness ==
    /\ CycleDone
    /\ firstCycle = "over"
    /\ Len(sent) >= 2
    /\ known_members # prev

\* C8: when the startup fetch fails, known_members stays empty, the monitor
\* task still starts, and the first cycle that fetches a roster reports
\* every fetched member as joined and none as left.
C8_UnseededFirstCycle ==
    /\ (startup_pc = "done" /\ ~seed.ok /\ firstCycle = "pending") =>
           known_members = <<>>
    /\ (startup_pc = "done" /\ ~seed.ok /\ monitor_pc = "idle") =>
           ENABLED MonitorStart
    /\ (startup_pc = "done" /\ ~seed.ok /\ firstCycle = "current" /\ monitor_pc = "sleep") =>
           SentEvents = Events("join", members.dict)
C8_Witness ==
    /\ startup_pc = "done"
    /\ ~seed.ok
    /\ firstCycle = "current"
    /\ monitor_pc = "sleep"
    /\ Len(sent) = 2

\* C9: at most one fetch is in flight: the startup fetch is over before the
\* monitor task runs, and a fetch starts only when the previous cycle's
\* fetch, dispatches, update and sleep are over.
C9_OneFetchInFlight ==
    /\ [](inflight <= 1 /\ (monitor_pc # "idle" => startup_pc = "done"))
    /\ [][ (inflight' > inflight) =>
              /\ inflight = 0
              /\ queue = <<>>
              /\ (startup_pc = "init" \/ monitor_pc \in {"idle", "sleep"})
         ]_vars
C9_Witness ==
    /\ monitor_pc = "fetching"
    /\ inflight = 1
    /\ firstCycle = "over"

\* C10: a status or members command handled at any point of a cycle sees
\* the whole previous roster or the whole new one, never a mixture, and it
\* can be handled while the fetch is in flight.
C10_Candidates == {prev} \cup (IF members.none THEN {} ELSE {members.dict})
C10_SnapshotReads ==
    /\ (monitor_pc # "idle" /\ reply.cmd = "status") =>
           \E c \in C10_Candidates : reply.count = Len(c)
    /\ (monitor_pc # "idle" /\ reply.cmd = "members") =>
           \E c \in C10_Candidates :
              reply.lines = MembersLines(c) /\ reply.nodata = (c = <<>>)
    /\ (Polling /\ monitor_pc = "fetching") =>
           (ENABLED StatusCommand /\ ENABLED MembersCommand)
C10_Witness ==
    /\ monitor_pc = "sending"
    /\ reply.cmd = "members"
    /\ sent # <<>>
    /\ Len(prev) # Len(members.dict)

\* C11: known_members is changed only by the startup seeding and by the
\* loop's end-of-cycle assignment; handling a start, status or members
\* command leaves it unchanged.
C11_OnlyLoopWrites ==
    [][ /\ (reply' # reply /\ reply'.cmd # "none") => known_members' = known_members
        /\ (known_members' # known_members) =>
              \/ (startup_pc = "fetching" /\ startup_pc' = "done")
              \/ (monitor_pc \in {"fetching", "sending"} /\ monitor_pc' = "sleep")
      ]_vars
C11_Witness ==
    /\ reply.cmd = "members"
    /\ monitor_pc = "sleep"
    /\ Len(known_members) = 2
    /\ SortedByName(known_members) # known_members

\* C12: an item without a tag never makes the fetch fail and contributes no
\* entry: the keys of the returned roster are the tags of the items that
\* carried one.
C12_MissingTagOmitted ==
    (Fetched /\ resp.status_code = 200 /\ resp.json = "items") =>
        /\ ~members.none
        /\ Keys(members.dict) = {resp.items[i].tag : i \in DOMAIN resp.items} \ {None}

\* C14: the size the status command reports is the number of entries of
\* known_members when the command is handled; in the middle of a cycle that
\* is the size of the roster stored by the last completed update.
C14_StatusCount ==
    reply.cmd = "status" =>
        /\ reply.count = Cardinality(Keys(known_members))
        /\ (monitor_pc \in {"fetching", "sending"}) =>
               reply.count = Cardinality(Keys(prev))
C14_Witness ==
    /\ reply.cmd = "status"
    /\ monitor_pc = "sending"
    /\ sent # <<>>
    /\ Len(prev) # Len(members.dict)

\* C15: for a non-empty roster the members command lists the entries in
\* ascending order of name, at most the limit of them and then the first
\* ones in that order; within the limit every member is listed exactly once.
C15_Listing(d, out, n) ==
    LET all == {<<d[i][2], d[i][1]>> : i \in DOMAIN d} IN
    /\ Len(out) = Min(n, Len(d))
    /\ \A i, j \in DOMAIN out : i < j => NameRank(out[i][1]) <= NameRank(out[j][1])
    /\ \A i, j \in DOMAIN out : i # j => out[i] # out[j]
    /\ Range(out) \subseteq all
    /\ \A l \in all \ Range(out) :
          \A i \in DOMAIN out : NameRank(out[i][1]) <= NameRank(l[1])
    /\ (Len(d) <= n) => Range(out) = all
SameRoster(a, b) ==
    Keys(a) = Keys(b) /\ \A t \in Keys(a) : Lookup(a, t) = Lookup(b, t)
C16_DiffLaws ==
    (Fetched /\ ~members.none) =>
        /\ Keys(Joined(members.dict, prev)) \cap Keys(Left(members.dict, prev)) = {}
        /\ Joined(prev, prev) = <<>> /\ Left(prev, prev) = <<>>
        /\ Joined(members.dict, members.dict) = <<>>
        /\ Left(members.dict, members.dict) = <<>>
        /\ SameRoster(members.dict, prev) => (sent = <<>> /\ queue = <<>>)
C16_Witness ==
    /\ CycleDone
    /\ Len(prev) = 2
    /\ SameRoster(members.dict, prev)
    /\ members.dict # prev

\* C20: a tag present in known_members and in the fetched roster with
\* different names gets no dispatch, known_members takes the new name, and
\* a leave carries the name of the most recently fetched roster.
C20_NameChange ==
    (Fetched /\ ~members.none) =>
        /\ \A e \in Range(SentEvents) \cup Range(queue) :
              /\ e.tag \notin Keys(prev) \cap Keys(members.dict)
              /\ e.kind = "leave" => e.name = Lookup(prev, e.tag)
        /\ CycleDone =>
              \A t \in Keys(members.dict) :
                 Lookup(known_members, t) = Lookup(members.dict, t)
C20_Witness ==
    /\ CycleDone
    /\ sent = <<>>
    /\ \E t \in Keys(prev) \cap Keys(members.dict) :
          Lookup(prev, t) # Lookup(members.dict, t)

\* C13: the loop has no terminal state: whatever fetches and dispatches
\* fail, every cycle reaches its sleep, the sleep is followed by a new
\* fetch and by nothing else, so a fetch is retried again and again.
C13_LoopNeverStops ==
    /\ <>(monitor_pc = "fetching")
    /\ (monitor_pc = "fetching") ~> (monitor_pc = "sleep")
    /\ (monitor_pc = "sleep") ~> (monitor_pc = "fetching")
    /\ [][ (monitor_pc = "sleep" /\ monitor_pc' # "sleep") =>
              (monitor_pc' = "fetching" /\ inflight' = 1) ]_vars
    /\ [](monitor_pc = "sleep" => ENABLED SleepWake)
C13_Witness ==
    /\ monitor_pc = "sleep"
    /\ FailedResp(resp)
    /\ ~seed.ok
    /\ firstCycle = "over"

\* C17: every change detected in a cycle gets exactly one dispatch attempt
\* in that cycle, and an attempt that failed is not made again by a later
\* cycle: the next attempt for that tag, if any, is of the other kind.
C17_FailedNeverRetried ==
    /\ [](CycleDone =>
            /\ Len(sent) = Len(Dispatches(members.dict, prev))
            /\ Cardinality({sent[i].ev.tag : i \in DOMAIN sent}) = Len(sent))
    /\ [][ (Len(sent') > Len(sent)) =>
              LET e == sent'[Len(sent')].ev IN
                /\ ~lastAttempt[e.tag].ok => lastAttempt[e.tag].kind # e.kind
                /\ \A i \in DOMAIN sent : sent[i].ev.tag # e.tag
         ]_vars
C17_Witness ==
    /\ CycleDone
    /\ \E t \in Keys(members.dict) \cap Keys(prev) :
          /\ lastAttempt[t].kind = "join"
          /\ ~lastAttempt[t].ok
          /\ \A i \in DOMAIN sent : sent[i].ev.tag # t

\* C18: a cycle that fetches a roster, also after a run of failed fetches,
\* dispatches exactly the difference between the roster of the last fetch
\* that returned one and the new roster, once per changed tag and nothing
\* for a tag that is in both.
C18_NetDifference ==
    CycleDone =>
        /\ Range(SentEvents) = C6_Expected(members.dict, baseGood)
        /\ Len(sent) = Cardinality(Keys(members.dict) \ Keys(baseGood))
                       + Cardinality(Keys(baseGood) \ Keys(members.dict))
C18_Witness ==
    /\ CycleDone
    /\ outage
    /\ Len(sent) = 1
    /\ Keys(baseGood) \cap Keys(members.dict) # {}

\* C19: for every tag the dispatch attempts alternate between join and
\* leave, and the first attempt for a tag of the seeded startup roster is a
\* leave.
C19_Alternation ==
    \A t \in DOMAIN lastAttempt :
        lastAttempt[t].kind \in {"join", "leave"} =>
            /\ lastAttempt[t].before # lastAttempt[t].kind
            /\ lastAttempt[t].before = "seeded" => lastAttempt[t].kind = "leave"
C19_Witness ==
    /\ \E t \in DOMAIN lastAttempt :
          lastAttempt[t].kind = "join" /\ lastAttempt[t].before = "leave"
    /\ \E u \in DOMAIN lastAttempt :
          lastAttempt[u].kind = "leave" /\ lastAttempt[u].before = "seeded"
====
